---- MODULE Spec2Model ----
(***************************************************************************)
(* Botaniq: the plant-identification screens.                              *)
(*   src/app/details.jsx  lines   1-436  Details, multi-candidate version  *)
(*   src/app/details.jsx  lines 438-793  Details, top-only version         *)
(*   src/app/result.jsx                  Result screen                     *)
(* One mounted screen runs per behaviour (variable screen).  The async     *)
(* identification flow is cut at its awaits: file read, create request,    *)
(* retried create request, retrieve request.  fetch() and res.text() are   *)
(* taken together as the arrival of one response: the flow changes no      *)
(* state between the two.                                                  *)
(* Numbers that are probabilities are kept in hundredths (0.9 is 90).      *)
(***************************************************************************)
EXTENDS Integers, Sequences, FiniteSets, TLC

VARIABLES
  screen,            \* which component is mounted: "details", "detailsTop", "result"
  USE_FAKE_RESULTS,  \* the build's mock-data switch (details.jsx:22, :459)
  uri,               \* the route parameter useLocalSearchParams() returns
  mounted,           \* FALSE once router.back() has left the screen
  pc,                \* position of the identification flow
  base64,            \* local of identify / identifyPlant
  requests,          \* requests sent by the current identification attempt, with their answers
  loading,           \* useState: loading
  ordered,           \* useState: ordered   (multi-candidate Details)
  currentIndex,      \* useState: currentIndex, 0-based as in the source
  showOthers,        \* useState: showOthers
  active,            \* useState: active (gallery pager dot)
  top,               \* useState: top       (top-only Details)
  preds,             \* useState: preds     (Result)
  alerts,            \* Alert.alert calls of the current identification attempt, in order
  full,              \* the final response, while a normalisation is pending
  badge,             \* label of the care chip as last rendered
  script,            \* the answers the first of two runs got, for the second to get
  first,             \* what the first of two runs ended with
  lastOp             \* the handler that ran last, with its argument

vars == <<screen, USE_FAKE_RESULTS, uri, mounted, pc, base64, requests,
          loading, ordered, currentIndex, showOthers, active, top, preds, alerts,
          full, badge, script, first, lastOp>>

----------------------------------------------------------------------------
(* Bounds of the model *)

\* longest suggestion list a response of the flow carries
MaxSuggestions == 2
\* longest suggestion list the normalisation is applied to on its own
MaxMapLen == 2

----------------------------------------------------------------------------
(* JavaScript values.  Every value is a record tagged with its type. *)

Undefined == [t |-> "undefined"]
Null == [t |-> "null"]
Str(s) == [t |-> "string", s |-> s]
Num(n) == [t |-> "number", nan |-> FALSE, v |-> n]
NaN == [t |-> "number", nan |-> TRUE, v |-> 0]
Arr(a) == [t |-> "array", a |-> a]
SyntaxError == [t |-> "SyntaxError"]

IsNullish(x) == x.t \in {"undefined", "null"}

\* ToBoolean
Truthy(x) ==
  CASE x.t = "undefined" -> FALSE
    [] x.t = "null" -> FALSE
    [] x.t = "string" -> x.s # ""
    [] x.t = "number" -> ~x.nan /\ x.v # 0
    [] OTHER -> TRUE

\* a || b
Or(a, b) == IF Truthy(a) THEN a ELSE b

\* a ?? b
Coalesce(a, b) == IF IsNullish(a) THEN b ELSE a

\* o?.f
Get(o, f) ==
  IF IsNullish(o) THEN Undefined
  ELSE IF o.t = "object" /\ f \in DOMAIN o THEN o[f]
  ELSE Undefined

\* String(x), for the values a route parameter or a message can be
JSString(x) ==
  CASE x.t = "string" -> x.s
    [] x.t = "undefined" -> "undefined"
    [] x.t = "null" -> "null"
    [] OTHER -> "[object Object]"

\* s.startsWith(p)
StartsWith(s, p) == Len(s) >= Len(p) /\ SubSeq(s, 1, Len(p)) = p

RECURSIVE IncludesFrom(_, _, _)
IncludesFrom(s, p, i) ==
  IF i + Len(p) - 1 > Len(s) THEN FALSE
  ELSE IF SubSeq(s, i, i + Len(p) - 1) = p THEN TRUE
  ELSE IncludesFrom(s, p, i + 1)

\* s.includes(p)
Includes(s, p) == IncludesFrom(s, p, 1)

\* s.slice(0, n)
Slice0(s, n) == IF Len(s) <= n THEN s ELSE SubSeq(s, 1, n)

Digits == <<"0", "1", "2", "3", "4", "5", "6", "7", "8", "9">>
IsDigit(c) == \E d \in 1..10 : Digits[d] = c
DigitVal(c) == (CHOOSE d \in 1..10 : Digits[d] = c) - 1

RECURSIVE AllDigits(_)
AllDigits(s) == Len(s) = 0 \/ (IsDigit(SubSeq(s, 1, 1)) /\ AllDigits(SubSeq(s, 2, Len(s))))

RECURSIVE DigitsVal(_, _)
DigitsVal(s, acc) ==
  IF Len(s) = 0 THEN acc
  ELSE DigitsVal(SubSeq(s, 2, Len(s)), 10 * acc + DigitVal(SubSeq(s, 1, 1)))

RECURSIVE DotAt(_, _)
DotAt(s, i) == IF i > Len(s) THEN 0 ELSE IF SubSeq(s, i, i) = "." THEN i ELSE DotAt(s, i + 1)

\* Number(s) of a string, in hundredths: "" is 0, a decimal literal with at most
\* two fraction digits is its value, any other text is NaN.
StringToNumber(s) ==
  LET d == DotAt(s, 1)
      int == IF d = 0 THEN s ELSE SubSeq(s, 1, d - 1)
      frac == IF d = 0 THEN "" ELSE SubSeq(s, d + 1, Len(s))
  IN IF s = "" THEN Num(0)
     ELSE IF Len(int) + Len(frac) = 0 \/ ~AllDigits(int) \/ ~AllDigits(frac) \/ Len(frac) > 2
       THEN NaN
     ELSE Num(100 * DigitsVal(int, 0)
              + (IF Len(frac) = 1 THEN 10 ELSE 1) * DigitsVal(frac, 0))

\* Number(x)
ToNumber(x) ==
  CASE x.t = "number" -> x
    [] x.t = "undefined" -> NaN
    [] x.t = "null" -> Num(0)
    [] x.t = "string" -> StringToNumber(x.s)
    [] OTHER -> NaN

----------------------------------------------------------------------------
(* What the API can answer *)

\* name fields: absent, or a species
Names == {Undefined, Str("Ficus")}

\* the API's details of a species; only some species have them
DetailsOf(name) ==
  IF name = Str("Ficus")
    THEN [t |-> "object", common_names |-> Arr(<<Str("Fig")>>)]
    ELSE Undefined

Image(url) == [t |-> "object", url |-> url]

Suggestion(name, probability, images) ==
  [t |-> "object", name |-> name, probability |-> probability,
   details |-> DetailsOf(name), similar_images |-> images]

\* probability fields: absent, null, numbers, a numeric string, a non-numeric string
AnyProbability == {Undefined, Null, Num(30), Num(90), Str("0.9"), Str("high")}
\* similar_images fields: absent, one image with a url, one image without
AnyImages == {Undefined, Arr(<<Image(Str("https://img/1"))>>), Arr(<<Image(Undefined)>>)}

\* suggestions the normalisation is checked on
AnySuggestion ==
  {Null} \cup {Suggestion(n, p, i) : n \in Names, p \in AnyProbability, i \in AnyImages}

\* suggestions the responses of the flow carry: a species with a similar image at
\* two probabilities, one without images, and an unnamed one whose image has no url
FlowSuggestion ==
  {Suggestion(Str("Ficus"), p, Arr(<<Image(Str("https://img/1"))>>)) : p \in {Num(30), Num(90)}}
    \cup {Suggestion(Str("Rosa"), Num(30), Undefined)}
    \cup {Suggestion(Undefined, Num(30), Arr(<<Image(Undefined)>>))}

ListsOf(S, n) == UNION {[1..k -> S] : k \in 0..n}

\* the result member of a response: the list at the first location, at the second
\* (inside the is_plant envelope; short lists only), or at both
ResultAt(direct, wrapped) ==
  [t |-> "object",
   classification |-> IF direct = Undefined THEN Undefined
                      ELSE [t |-> "object", suggestions |-> direct],
   is_plant |-> IF wrapped = Undefined THEN Undefined
                ELSE [t |-> "object",
                      classification |-> [t |-> "object", suggestions |-> wrapped]]]

ResultsOf(lists) ==
  {Undefined, ResultAt(Undefined, Undefined)}
    \cup {ResultAt(Arr(l), Undefined) : l \in lists}
    \cup {ResultAt(Undefined, Arr(l)) : l \in {m \in lists : Len(m) <= 1}}
    \cup {ResultAt(Arr(<<>>), Arr(l)) : l \in {m \in lists : Len(m) = 1}}

ResponseBody(id, access_token, result) ==
  [t |-> "object", id |-> id, access_token |-> access_token, result |-> result]

----------------------------------------------------------------------------
(* Normalisation: raw suggestions to candidates *)

\* full?.result?.classification?.suggestions
\*   ?? full?.result?.is_plant?.classification?.suggestions ?? []
Suggestions(f) ==
  Coalesce(Get(Get(Get(f, "result"), "classification"), "suggestions"),
    Coalesce(Get(Get(Get(Get(f, "result"), "is_plant"), "classification"), "suggestions"),
             Arr(<<>>)))

\* Number(s?.probability), the default left out
Confidence_noDefault(s) == ToNumber(Get(s, "probability"))

\* Number(s?.probability ?? 0)
Confidence(s) == ToNumber(Coalesce(Get(s, "probability"), Num(0)))

\* (s?.similar_images || []).map((img) => img?.url).filter(Boolean)
GalleryOf(s) ==
  LET imgs == Or(Get(s, "similar_images"), Arr(<<>>)).a
      urls == [i \in 1..Len(imgs) |-> Get(imgs[i], "url")]
  IN SelectSeq(urls, Truthy)

\* the mapping callback of identify
MapCandidate(s) ==
  [label |-> Or(Get(s, "name"), Str("Unknown")),
   sci |-> Get(s, "name"),
   confidence |-> Confidence(s),
   details |-> Or(Get(s, "details"), Null),
   gallery |-> GalleryOf(s)]

\* the mapping callback of identifyPlant
MapPrediction(s) ==
  [label |-> Or(Get(s, "name"), Str("Unknown")),
   confidence |-> Confidence(s),
   details |-> Or(Get(s, "details"), Null),
   similar_images |-> Or(Get(s, "similar_images"), Arr(<<>>))]

\* n || 0, as a count of hundredths
OrZero(n) == IF Truthy(n) THEN n.v ELSE 0

\* the comparator with its operands exchanged: ascending
Comparator_ascending(a, b) == OrZero(a.confidence) - OrZero(b.confidence)

\* (a, b) => (b.confidence || 0) - (a.confidence || 0)
Comparator(a, b) == OrZero(b.confidence) - OrZero(a.confidence)

\* x placed behind every element the comparator does not put after it
InsertSorted(sorted, x) ==
  LET n == Len(sorted)
      pos == CHOOSE i \in 1..(n + 1) :
               /\ \A j \in 1..(i - 1) : Comparator(sorted[j], x) <= 0
               /\ i = n + 1 \/ Comparator(sorted[i], x) > 0
  IN SubSeq(sorted, 1, pos - 1) \o <<x>> \o SubSeq(sorted, pos, n)

RECURSIVE SortPrefix(_, _)
SortPrefix(a, n) == IF n = 0 THEN <<>> ELSE InsertSorted(SortPrefix(a, n - 1), a[n])

\* Array.prototype.sort with the comparator above: a stable sort
ArraySort(a) == SortPrefix(a, Len(a))

\* mapped and sorted, the fallback hero left out
Mapped_noFallback(suggestions, u) ==
  ArraySort([i \in 1..Len(suggestions) |-> MapCandidate(suggestions[i])])

\* mapped, sorted, and the fallback hero of identify (multi-candidate version)
Mapped(suggestions, u) ==
  LET mapped == ArraySort([i \in 1..Len(suggestions) |-> MapCandidate(suggestions[i])])
  IN IF Len(mapped[1].gallery) = 0 /\ Truthy(u)
       THEN [mapped EXCEPT ![1].gallery = <<Str(JSString(u))>>]
       ELSE mapped

\* topMatch taken from the mapped list as it came, the sort left out
TopMatch_unsorted(suggestions, u) ==
  LET topMatch == MapCandidate(suggestions[1])
  IN IF Len(topMatch.gallery) = 0 /\ Truthy(u)
       THEN [topMatch EXCEPT !.gallery = <<Str(JSString(u))>>]
       ELSE topMatch

\* topMatch and its fallback of identify (top-only version)
TopMatch(suggestions, u) ==
  LET topMatch == ArraySort([i \in 1..Len(suggestions) |-> MapCandidate(suggestions[i])])[1]
  IN IF Len(topMatch.gallery) = 0 /\ Truthy(u)
       THEN [topMatch EXCEPT !.gallery = <<Str(JSString(u))>>]
       ELSE topMatch

----------------------------------------------------------------------------
(* The network and the file system, as the flow sees them *)

NetworkError == [kind |-> "neterr", status |-> 0, txt |-> "", parsed |-> Undefined]
Http(status, txt, parsed) ==
  [kind |-> "http", status |-> status, txt |-> txt, parsed |-> parsed]

\* res.ok
Ok(res) == res.kind = "http" /\ res.status \in 200..299

\* bodies of error responses
ErrorTexts == {"invalid image", "gateway: upstream said Create 400"}

\* a result a token-bearing create response may carry as well
DecoyResult == ResultAt(Arr(<<Suggestion(Str("Rosa"), Num(30), Undefined)>>), Undefined)

CreateResponses ==
  {NetworkError, Http(200, "<html>", SyntaxError), Http(200, "null", Null)}
    \cup {Http(st, x, SyntaxError) : st \in {400, 500}, x \in ErrorTexts}
    \cup {Http(200, "{}", ResponseBody(i, a, r)) :
            i \in {Undefined, Str("tok1")}, a \in {Str("tok2")}, r \in {Undefined, DecoyResult}}
    \cup {Http(200, "{}", ResponseBody(Str("tok1"), Undefined, r)) : r \in {Undefined, DecoyResult}}
    \cup {Http(200, "{}", ResponseBody(Undefined, Undefined, r)) :
            r \in ResultsOf(ListsOf(FlowSuggestion, MaxSuggestions))}

RetrieveResponses ==
  {NetworkError, Http(200, "<html>", SyntaxError), Http(200, "null", Null)}
    \cup {Http(st, x, SyntaxError) : st \in {404, 500}, x \in ErrorTexts}
    \cup {Http(200, "{}", ResponseBody(Undefined, Undefined, r)) :
            r \in ResultsOf(ListsOf(FlowSuggestion, MaxSuggestions))}

Throw(message) == [threw |-> TRUE, message |-> message, value |-> Undefined]
Return(value) == [threw |-> FALSE, message |-> "", value |-> value]

\* createIdentification of details.jsx, given the response fetch() gets
createIdentification(res) ==
  IF res.kind = "neterr" THEN Throw("Network request failed")
  ELSE IF ~Ok(res) THEN Throw("Create " \o ToString(res.status) \o ": " \o res.txt)
  ELSE IF res.parsed = SyntaxError THEN Throw("JSON Parse error")
  ELSE Return(res.parsed)

\* retrieveIdentification of details.jsx
retrieveIdentification(res) ==
  IF res.kind = "neterr" THEN Throw("Network request failed")
  ELSE IF ~Ok(res) THEN Throw("Retrieve " \o ToString(res.status) \o ": " \o res.txt)
  ELSE IF res.parsed = SyntaxError THEN Throw("JSON Parse error")
  ELSE Return(res.parsed)

\* createIdentification of result.jsx
createIdentification_result(res) ==
  IF res.kind = "neterr" THEN Throw("Network request failed")
  ELSE IF ~Ok(res) THEN Throw("Create " \o ToString(res.status) \o ": " \o res.txt)
  ELSE IF res.parsed = SyntaxError THEN Throw("Create: Invalid JSON response")
  ELSE Return(res.parsed)

\* retrieveIdentification of result.jsx
retrieveIdentification_result(res) ==
  IF res.kind = "neterr" THEN Throw("Network request failed")
  ELSE IF ~Ok(res) THEN Throw("Retrieve " \o ToString(res.status) \o ": " \o res.txt)
  ELSE IF res.parsed = SyntaxError THEN Throw("Retrieve: Invalid JSON response")
  ELSE Return(res.parsed)

\* a create request as sent: body.images[0].  The last fields are filled in when
\* the answer comes: the token members of its body, the number of suggestions the
\* flow reads from it, and the length of the list at each of the two locations (-1
\* where there is none).
CreateRequest(image) ==
  [kind |-> "create", image |-> image, token |-> "", state |-> "pending", status |-> 0,
   id |-> Undefined, access_token |-> Undefined, count |-> 0, direct |-> -1, wrapped |-> -1]
\* a retrieve request as sent: the token in its URL
RetrieveRequest(token) ==
  [kind |-> "retrieve", image |-> "", token |-> token, state |-> "pending", status |-> 0,
   id |-> Undefined, access_token |-> Undefined, count |-> 0, direct |-> -1, wrapped |-> -1]

\* the length of a list member of a body, -1 when the member is absent or null
LengthAt(list) == IF IsNullish(list) THEN -1 ELSE Len(list.a)

\* the body of res as the flow gets to read it: nothing unless res is a 2xx
\* response whose text is JSON
BodyOf(res) == IF Ok(res) /\ res.parsed # SyntaxError THEN res.parsed ELSE Undefined

\* how a request ended: "failed" (fetch rejected), "error" (not a 2xx status),
\* "garbled" (2xx, the text is not JSON) or "ok"
Ended(res) ==
  IF res.kind = "neterr" THEN "failed"
  ELSE IF ~Ok(res) THEN "error"
  ELSE IF res.parsed = SyntaxError THEN "garbled"
  ELSE "ok"

\* the pending request of the log, answered by res
Answered(log, res) ==
  [log EXCEPT ![Len(log)].state = Ended(res),
              ![Len(log)].status = res.status,
              ![Len(log)].id = Get(BodyOf(res), "id"),
              ![Len(log)].access_token = Get(BodyOf(res), "access_token"),
              ![Len(log)].count = Len(Suggestions(BodyOf(res)).a),
              ![Len(log)].direct =
                 LengthAt(Get(Get(Get(BodyOf(res), "result"), "classification"), "suggestions")),
              ![Len(log)].wrapped =
                 LengthAt(Get(Get(Get(Get(BodyOf(res), "result"), "is_plant"),
                                  "classification"), "suggestions"))]

\* `data:image/jpeg;base64,${base64}`
Prefixed(b) == "data:image/jpeg;base64," \o b

\* String(e.message).includes("Create 400")
IsCreate400(message) == Includes(message, "Create 400")

\* created?.id || created?.access_token
TokenOf(created) == Or(Get(created, "id"), Get(created, "access_token"))

----------------------------------------------------------------------------
(* State updates shared by the steps of the flow *)

Op(op, label) == [op |-> op, label |-> label]

\* a state setter: React drops the update once the component is unmounted
Set(old, new) == IF mounted THEN new ELSE old

Alert(title, message) == [title |-> title, message |-> message]

Wiki(text) == [t |-> "object", value |-> Str(text)]

\* the hardcoded mock of identify (multi-candidate version)
MockCandidates ==
  << [label |-> Str("String of Buttons"), sci |-> Str("Curio repens"),
      confidence |-> Num(95),
      details |-> [t |-> "object",
                   common_names |-> Arr(<<Str("String of Buttons")>>),
                   wiki_description |->
                     Wiki("A creeping succulent with blue-green, button-like leaves."),
                   edible_parts |-> Arr(<<>>),
                   watering |-> [t |-> "object", min |-> Num(10), max |-> Num(30)],
                   url |-> Str("https://en.wikipedia.org/wiki/Curio_repens")],
      gallery |-> <<Str("https://images.unsplash.com/photo-1545249390-5c6f2f9c2f5d?q=80&w=1200"),
                    Str("https://images.unsplash.com/photo-1520896696177-2c17c7c47a9f?q=80&w=1200")>>],
     [label |-> Str("Senecio serpens"), sci |-> Str("Senecio serpens"),
      confidence |-> Num(78),
      details |-> [t |-> "object",
                   common_names |-> Arr(<<Str("Blue Chalksticks")>>),
                   wiki_description |-> Wiki("A blue-grey succulent.")],
      gallery |-> <<Str("https://images.unsplash.com/photo-1604586374968-3e2fd1f3e3f5?q=80&w=1200")>>],
     [label |-> Str("Crassula perforata"), sci |-> Str("Crassula perforata"),
      confidence |-> Num(62),
      details |-> [t |-> "object",
                   common_names |-> Arr(<<Str("String of Buttons (Crassula)")>>),
                   wiki_description |-> Wiki("Stacked leaves on columns.")],
      gallery |-> <<Str("https://images.unsplash.com/photo-1501004318641-b39e6451bec6?q=80&w=1200")>>] >>

\* the hardcoded mock of identify (top-only version)
MockTop == MockCandidates[1]

\* identify_store raising no alert for an empty list
identify_store_quiet(f) ==
  LET suggestions == Suggestions(f).a
  IN /\ ordered' = Set(ordered, IF Len(suggestions) = 0 THEN <<>> ELSE Mapped(suggestions, uri))
     /\ alerts' = alerts
     /\ currentIndex' = Set(currentIndex, 0)
     /\ loading' = Set(loading, FALSE)
     /\ UNCHANGED <<top, preds>>

\* identify, multi-candidate version, from the suggestions on
identify_store(f) ==
  LET suggestions == Suggestions(f).a
  IN /\ IF Len(suggestions) = 0
          THEN /\ ordered' = Set(ordered, <<>>)
               /\ alerts' = Append(alerts,
                    Alert("No matches", "Try a closer, well-lit photo of a single leaf/flower."))
          ELSE /\ ordered' = Set(ordered, Mapped(suggestions, uri))
               /\ alerts' = alerts
     /\ currentIndex' = Set(currentIndex, 0)
     /\ loading' = Set(loading, FALSE)
     /\ UNCHANGED <<top, preds>>

\* identify, top-only version, from the suggestions on
identifyTop_store(f) ==
  LET suggestions == Suggestions(f).a
  IN /\ IF Len(suggestions) = 0
          THEN /\ top' = Set(top, Null)
               /\ alerts' = Append(alerts,
                    Alert("No matches", "Try a closer, well-lit photo of a single leaf/flower."))
          ELSE /\ top' = Set(top, TopMatch(suggestions, uri))
               /\ alerts' = alerts
     /\ loading' = Set(loading, FALSE)
     /\ UNCHANGED <<ordered, currentIndex, preds>>

\* the catch callback without its setLoading(false)
identify_catch_keepsLoading(message) ==
  /\ loading' = loading
  /\ alerts' = Append(alerts,
       Alert("Identification failed",
             Slice0(JSString(Or(Str(message), Str("Unknown error"))), 300)))
  /\ UNCHANGED <<ordered, currentIndex, top, preds>>

\* the catch callback of the load effect (both versions of details.jsx)
identify_catch(message) ==
  /\ loading' = Set(loading, FALSE)
  /\ alerts' = Append(alerts,
       Alert("Identification failed",
             Slice0(JSString(Or(Str(message), Str("Unknown error"))), 300)))
  /\ UNCHANGED <<ordered, currentIndex, top, preds>>

\* onIdentify after identifyPlant has returned: setPreds, the alert, finally
onIdentify_store(f) ==
  LET suggestions == Suggestions(f).a
      results == [i \in 1..Len(suggestions) |-> MapPrediction(suggestions[i])]
  IN /\ preds' = Set(preds, Arr(results))
     /\ alerts' = IF Len(results) = 0
                    THEN Append(alerts,
                      Alert("No matches", "Try a closer, well-lit photo of a single leaf/flower."))
                    ELSE alerts
     /\ loading' = Set(loading, FALSE)
     /\ UNCHANGED <<ordered, currentIndex, top>>

\* the catch and finally blocks of onIdentify
onIdentify_catch(message) ==
  /\ loading' = Set(loading, FALSE)
  /\ alerts' = Append(alerts,
       Alert("Identification failed",
             Slice0(JSString(Or(Str(message), Str("Unknown error"))), 300)))
  /\ UNCHANGED <<ordered, currentIndex, top, preds>>

Store(f) ==
  CASE screen = "details" -> identify_store(f)
    [] screen = "detailsTop" -> identifyTop_store(f)
    [] OTHER -> onIdentify_store(f)

Catch(message) ==
  IF screen = "result" THEN onIdentify_catch(message) ELSE identify_catch(message)

\* where the flow rests once it has ended
Rest == IF screen = "result" THEN "idle" ELSE "done"

\* the flow ends with an exception
Fail(log, message) ==
  /\ pc' = Rest
  /\ requests' = log
  /\ base64' = ""
  /\ Catch(message)

\* the flow ends with the final response f
Finish(log, f) ==
  /\ pc' = Rest
  /\ requests' = log
  /\ base64' = ""
  /\ Store(f)

\* the retrieve request sent whether or not there is a token
AfterCreate_alwaysRetrieve(log, created) ==
  /\ requests' = Append(log, RetrieveRequest(JSString(TokenOf(created))))
  /\ pc' = "retrieve"
  /\ UNCHANGED <<base64, loading, ordered, currentIndex, top, preds, alerts>>

\* token, and either the retrieve request or the end of the flow
AfterCreate(log, created) ==
  LET token == TokenOf(created)
  IN IF Truthy(token)
       THEN /\ requests' = Append(log, RetrieveRequest(JSString(token)))
            /\ pc' = "retrieve"
            /\ UNCHANGED <<base64, loading, ordered, currentIndex, top, preds, alerts>>
       ELSE Finish(log, created)

----------------------------------------------------------------------------
(* The identification flow of details.jsx (both versions share this code) *)

Screens == {"details", "detailsTop", "result"}
IsDetails == screen \in {"details", "detailsTop"}

Uris == {Undefined, Str(""), Str("file:///photo.jpg"), Str("content://media/7")}

\* what FileSystem.readAsStringAsync resolves with
Base64Data == "QUJD"

UI == <<showOthers, active>>
Config == <<screen, USE_FAKE_RESULTS, uri, full, badge, script, first>>
Results == <<loading, ordered, currentIndex, top, preds, alerts>>

\* identify from the settling of readAsStringAsync on: resolved (ok) or rejected
Read(ok) ==
  IF ok
    THEN /\ base64' = Base64Data
         /\ requests' = <<CreateRequest(Base64Data)>>
         /\ pc' = "create1"
         /\ UNCHANGED Results
    ELSE Fail(requests, "File is not readable")

\* identify from the answer res to the first create request on
Create1(res) ==
  LET out == createIdentification(res)
      log == Answered(requests, res)
  IN IF out.threw
       THEN IF IsCreate400(out.message)
              THEN /\ requests' = Append(log, CreateRequest(Prefixed(base64)))
                   /\ pc' = "create2"
                   /\ UNCHANGED <<base64, Results>>
              ELSE Fail(log, out.message)
       ELSE AfterCreate(log, out.value)

\* identify from the answer res to the retried create request on
Create2(res) ==
  LET out == createIdentification(res)
      log == Answered(requests, res)
  IN IF out.threw THEN Fail(log, out.message) ELSE AfterCreate(log, out.value)

\* identify from the answer res to the retrieve request on
Retrieve(res) ==
  LET out == retrieveIdentification(res)
      log == Answered(requests, res)
  IN IF out.threw THEN Fail(log, out.message) ELSE Finish(log, out.value)

\* the load effect: setLoading(true), then identify() up to its first await
useEffect ==
  /\ IsDetails /\ mounted /\ pc = "effect"
  /\ lastOp' = Op("useEffect", "")
  /\ IF USE_FAKE_RESULTS
       THEN /\ pc' = "timer"
            /\ loading' = Set(loading, TRUE)
            /\ UNCHANGED <<ordered, currentIndex, top, preds, alerts>>
       ELSE IF ~Truthy(uri) \/ ~StartsWith(JSString(uri), "file://")
         THEN /\ pc' = "done"
              /\ identify_catch("Invalid file URI")
         ELSE /\ pc' = "read"
              /\ loading' = Set(loading, TRUE)
              /\ UNCHANGED <<ordered, currentIndex, top, preds, alerts>>
  /\ UNCHANGED <<Config, mounted, base64, requests, UI>>

\* the mock branch of identify, once its timer has fired
identify_mock ==
  /\ IsDetails /\ pc = "timer"
  /\ pc' = "done"
  /\ lastOp' = Op("timer", "")
  /\ loading' = Set(loading, FALSE)
  /\ IF screen = "details"
       THEN /\ ordered' = Set(ordered, MockCandidates)
            /\ currentIndex' = Set(currentIndex, 0)
            /\ top' = top
       ELSE /\ top' = Set(top, MockTop)
            /\ UNCHANGED <<ordered, currentIndex>>
  /\ UNCHANGED <<Config, mounted, base64, requests, UI, preds, alerts>>

\* readAsStringAsync settles; on success the first create request leaves
identify_read ==
  /\ IsDetails /\ pc = "read"
  /\ lastOp' = Op("read", "")
  /\ \E ok \in BOOLEAN : Read(ok)
  /\ UNCHANGED <<Config, mounted, UI>>

\* the first create request is answered
identify_create1 ==
  /\ IsDetails /\ pc = "create1"
  /\ lastOp' = Op("create1", "")
  /\ \E res \in CreateResponses : Create1(res)
  /\ UNCHANGED <<Config, mounted, UI>>

\* the retried create request is answered
identify_create2 ==
  /\ IsDetails /\ pc = "create2"
  /\ lastOp' = Op("create2", "")
  /\ \E res \in CreateResponses : Create2(res)
  /\ UNCHANGED <<Config, mounted, UI>>

\* the retrieve request is answered
identify_retrieve ==
  /\ IsDetails /\ pc = "retrieve"
  /\ lastOp' = Op("retrieve", "")
  /\ \E res \in RetrieveResponses : Retrieve(res)
  /\ UNCHANGED <<Config, mounted, UI>>

----------------------------------------------------------------------------
(* The flow of result.jsx *)

hasPhoto == uri.t = "string" /\ Len(uri.s) > 0

\* onIdentify behind a button that is never disabled while loading
onIdentify_whileLoading ==
  /\ screen = "result" /\ mounted
  /\ hasPhoto
  /\ lastOp' = Op("onIdentify", "")
  /\ loading' = TRUE
  /\ pc' = "read"
  /\ requests' = <<>>
  /\ alerts' = <<>>
  /\ UNCHANGED <<Config, mounted, base64, UI, ordered, currentIndex, top, preds>>

\* the Identify button is pressed: onIdentify up to the first await of identifyPlant
onIdentify ==
  /\ screen = "result" /\ mounted
  /\ ~(loading \/ ~hasPhoto)
  /\ lastOp' = Op("onIdentify", "")
  /\ IF ~hasPhoto
       THEN /\ alerts' = Append(alerts, Alert("No photo", "Please capture a photo first."))
            /\ UNCHANGED <<pc, requests, loading>>
       ELSE /\ loading' = TRUE
            /\ pc' = "read"
            /\ requests' = <<>>
            /\ alerts' = <<>>
  /\ UNCHANGED <<Config, mounted, base64, UI, ordered, currentIndex, top, preds>>

identifyPlant_read ==
  /\ screen = "result" /\ pc = "read"
  /\ lastOp' = Op("read", "")
  /\ \/ /\ base64' = Base64Data
        /\ requests' = <<CreateRequest(Base64Data)>>
        /\ pc' = "create1"
        /\ UNCHANGED Results
     \/ Fail(requests, "File is not readable")
  /\ UNCHANGED <<Config, mounted, UI>>

identifyPlant_create1 ==
  /\ screen = "result" /\ pc = "create1"
  /\ lastOp' = Op("create1", "")
  /\ \E res \in CreateResponses :
       LET out == createIdentification_result(res)
           log == Answered(requests, res)
       IN IF out.threw
            THEN IF IsCreate400(out.message)
                   THEN /\ requests' = Append(log, CreateRequest(Prefixed(base64)))
                        /\ pc' = "create2"
                        /\ UNCHANGED <<base64, Results>>
                   ELSE Fail(log, out.message)
            ELSE AfterCreate(log, out.value)
  /\ UNCHANGED <<Config, mounted, UI>>

identifyPlant_create2 ==
  /\ screen = "result" /\ pc = "create2"
  /\ lastOp' = Op("create2", "")
  /\ \E res \in CreateResponses :
       LET out == createIdentification_result(res)
           log == Answered(requests, res)
       IN IF out.threw THEN Fail(log, out.message) ELSE AfterCreate(log, out.value)
  /\ UNCHANGED <<Config, mounted, UI>>

identifyPlant_retrieve ==
  /\ screen = "result" /\ pc = "retrieve"
  /\ lastOp' = Op("retrieve", "")
  /\ \E res \in RetrieveResponses :
       LET out == retrieveIdentification_result(res)
           log == Answered(requests, res)
       IN IF out.threw THEN Fail(log, out.message) ELSE Finish(log, out.value)
  /\ UNCHANGED <<Config, mounted, UI>>

----------------------------------------------------------------------------
(* The Details screen once it renders a result (multi-candidate version) *)

\* ordered[currentIndex]
current ==
  IF currentIndex + 1 \in DOMAIN ordered THEN ordered[currentIndex + 1] ELSE Undefined

\* ordered.filter((_, i) => i !== currentIndex).slice(0, 2)
others ==
  LET rest == SelectSeq([i \in 1..Len(ordered) |-> i], LAMBDA i : i - 1 # currentIndex)
      kept == SubSeq(rest, 1, IF Len(rest) < 2 THEN Len(rest) ELSE 2)
  IN [k \in 1..Len(kept) |-> ordered[kept[k]]]

\* current?.gallery || []
gallery == IF current = Undefined THEN <<>> ELSE current.gallery

\* top?.gallery || []
galleryTop == IF top = Null THEN <<>> ELSE top.gallery

RECURSIVE FindFrom(_, _, _)
FindFrom(list, label, i) ==
  IF i > Len(list) THEN -1
  ELSE IF list[i].label = label THEN i - 1
  ELSE FindFrom(list, label, i + 1)

RECURSIVE FindLastFrom(_, _, _)
FindLastFrom(list, label, i) ==
  IF i < 1 THEN -1
  ELSE IF list[i].label = label THEN i - 1
  ELSE FindLastFrom(list, label, i - 1)

\* findLastIndex in the place of findIndex
FindIndex_last(list, label) == FindLastFrom(list, label, Len(list))

\* findIndex counting from 1
FindIndex_oneBased(list, label) ==
  IF FindFrom(list, label, 1) < 0 THEN -1 ELSE FindFrom(list, label, 1) + 1

\* list.findIndex((x) => x.label === label), 0-based, -1 when there is none
FindIndex(list, label) == FindFrom(list, label, 1)

\* promote without its test of idx
promote_unguarded(option) ==
  /\ currentIndex' = FindIndex(ordered, option.label)
  /\ showOthers' = FALSE
  /\ active' = 0

promote(option) ==
  LET idx == FindIndex(ordered, option.label)
  IN IF idx >= 0
       THEN /\ currentIndex' = idx
            /\ showOthers' = FALSE
            /\ active' = 0
       ELSE UNCHANGED <<currentIndex, showOthers, active>>

\* the result view is on screen
ShowsResult == screen = "details" /\ mounted /\ ~loading /\ current # Undefined

\* an alternative card is pressed: onPress={() => promote(opt)}
PressAlternative ==
  /\ ShowsResult /\ showOthers /\ Len(others) > 0
  /\ \E k \in 1..Len(others) :
       /\ promote(others[k])
       /\ lastOp' = Op("promote", others[k].label.s)
  /\ UNCHANGED <<Config, mounted, pc, base64, requests, loading, ordered, top, preds,
                 alerts>>

\* "Not your plant?" / "Hide alternatives": setShowOthers((s) => !s)
ToggleOthers ==
  /\ ShowsResult /\ Len(others) > 0
  /\ showOthers' = ~showOthers
  /\ lastOp' = Op("toggle", "")
  /\ UNCHANGED <<Config, mounted, pc, base64, requests, Results, active>>

\* the gallery pager comes to rest on page i
onScrollEnd ==
  /\ mounted /\ ~loading
  /\ \/ screen = "details" /\ current # Undefined
        /\ \E i \in 0..(Len(gallery) - 1) : active' = i
     \/ screen = "detailsTop" /\ top # Null
        /\ \E i \in 0..(Len(galleryTop) - 1) : active' = i
  /\ lastOp' = Op("onScrollEnd", "")
  /\ UNCHANGED <<Config, mounted, pc, base64, requests, Results, showOthers>>

\* onBackPress dropping the alternatives when it returns to the first candidate
onBackPress_dropping ==
  /\ screen = "details" /\ mounted
  /\ lastOp' = Op("onBackPress", "")
  /\ IF currentIndex # 0
       THEN /\ currentIndex' = 0
            /\ showOthers' = FALSE
            /\ ordered' = SubSeq(ordered, 1, 1)
            /\ mounted' = mounted
       ELSE /\ mounted' = FALSE
            /\ UNCHANGED <<currentIndex, showOthers, ordered>>
  /\ UNCHANGED <<Config, pc, base64, requests, loading, top, preds, alerts, active>>

\* onBackPress leaving the screen whatever candidate is current
onBackPress_leaving ==
  /\ screen = "details" /\ mounted
  /\ lastOp' = Op("onBackPress", "")
  /\ mounted' = FALSE
  /\ UNCHANGED <<Config, pc, base64, requests, loading, ordered, currentIndex, showOthers,
                 top, preds, alerts, active>>

onBackPress ==
  /\ screen = "details" /\ mounted
  /\ lastOp' = Op("onBackPress", "")
  /\ IF currentIndex # 0
       THEN /\ currentIndex' = 0
            /\ showOthers' = FALSE
            /\ mounted' = mounted
       ELSE /\ mounted' = FALSE
            /\ UNCHANGED <<currentIndex, showOthers>>
  /\ UNCHANGED <<Config, pc, base64, requests, loading, ordered, top, preds, alerts,
                 active>>

\* the back button of the top-only Details, back and Retake of Result: router.back()
routerBack ==
  /\ screen \in {"detailsTop", "result"} /\ mounted
  /\ mounted' = FALSE
  /\ lastOp' = Op("routerBack", "")
  /\ UNCHANGED <<Config, pc, base64, requests, Results, UI>>

----------------------------------------------------------------------------
(* The screens from mount on *)

Init ==
  /\ screen \in Screens
  /\ USE_FAKE_RESULTS \in (IF screen = "result" THEN {FALSE} ELSE BOOLEAN)
  /\ uri \in Uris
  /\ mounted = TRUE
  /\ pc = (IF screen = "result" THEN "idle" ELSE "effect")
  /\ base64 = ""
  /\ requests = <<>>
  /\ loading = (screen # "result")
  /\ ordered = <<>>
  /\ currentIndex = 0
  /\ showOthers = FALSE
  /\ active = 0
  /\ top = Null
  /\ preds = Null
  /\ alerts = <<>>
  /\ full = Undefined
  /\ badge = ""
  /\ script = <<>>
  /\ first = Null
  /\ lastOp = Op("mount", "")

Next ==
  \/ useEffect
  \/ identify_mock
  \/ identify_read
  \/ identify_create1
  \/ identify_create2
  \/ identify_retrieve
  \/ onIdentify
  \/ identifyPlant_read
  \/ identifyPlant_create1
  \/ identifyPlant_create2
  \/ identifyPlant_retrieve
  \/ PressAlternative
  \/ ToggleOthers
  \/ onScrollEnd
  \/ onBackPress
  \/ routerBack

Spec == Init /\ [][Next]_vars

----------------------------------------------------------------------------
(* promote as an operation of its own: called with any label *)

PromoteLabels == {"Ficus", "Rosa", "Unknown", "Senecio serpens", "Quercus"}

PromoteCall ==
  /\ screen = "details" /\ mounted
  /\ \E l \in PromoteLabels :
       /\ promote([label |-> Str(l)])
       /\ lastOp' = Op("promote", l)
  /\ UNCHANGED <<Config, mounted, pc, base64, requests, loading, ordered, top, preds,
                 alerts>>

NextContract == Next \/ PromoteCall

SpecContract == Init /\ [][NextContract]_vars

----------------------------------------------------------------------------
(* The normalisation on its own: the final response is given, the rest of the *)
(* flow is applied to it.                                                     *)

InitMap ==
  /\ screen \in Screens
  /\ USE_FAKE_RESULTS = FALSE
  /\ uri \in (IF screen = "result" THEN {Str("file:///photo.jpg"), Str("content://media/7")}
              ELSE {Str("file:///photo.jpg")})
  /\ mounted = TRUE
  /\ pc = "normalise"
  /\ base64 = Base64Data
  /\ requests = <<CreateRequest(Base64Data)>>
  /\ loading = TRUE
  /\ ordered = <<>>
  /\ currentIndex = 0
  /\ showOthers = FALSE
  /\ active = 0
  /\ top = Null
  /\ preds = Null
  /\ alerts = <<>>
  /\ full \in {ResponseBody(Undefined, Undefined, ResultAt(Arr(l), Undefined)) :
                 l \in ListsOf(AnySuggestion, MaxMapLen)}
  /\ badge = ""
  /\ script = <<>>
  /\ first = Null
  /\ lastOp = Op("create1", "")

Normalise ==
  /\ pc = "normalise"
  /\ Finish(Answered(requests, Http(200, "{}", full)), full)
  /\ lastOp' = Op("normalise", "")
  /\ UNCHANGED <<Config, mounted, UI>>

NextMap == Normalise

SpecMap == InitMap /\ [][NextMap]_vars

----------------------------------------------------------------------------
(* Claims about the normalisation, checked under SpecMap *)

\* the raw suggestions of the response under normalisation
Input == Suggestions(full).a

\* the multi-candidate Details has stored the candidates of the response
Normalised == screen = "details" /\ pc = "done" /\ full # Undefined /\ Len(Input) > 0

\* a is a higher confidence than b (no number is higher or lower than NaN)
Higher(a, b) == ~a.nan /\ ~b.nan /\ a.v > b.v

\* candidate c is suggestion s mapped; the gallery is left aside
MappedFrom(c, s) ==
  /\ c.label = (IF Truthy(Get(s, "name")) THEN Get(s, "name") ELSE Str("Unknown"))
  /\ c.sci = Get(s, "name")
  /\ c.confidence = MapCandidate(s).confidence
  /\ c.details = MapCandidate(s).details

\* C1: the candidate list identify stores is the mapped input rearranged so that no
\* candidate is followed by one of higher confidence, and candidates of equal
\* confidence keep the order of the input.
C1_SortedStable ==
  Normalised =>
    /\ Len(ordered) = Len(Input)
    /\ \A i, j \in 1..Len(ordered) : i < j => ~Higher(ordered[j].confidence, ordered[i].confidence)
    /\ \E p \in Permutations(1..Len(Input)) :
         /\ \A k \in 1..Len(Input) : MappedFrom(ordered[k], Input[p[k]])
         /\ \A i, j \in 1..Len(Input) :
              (i < j /\ ordered[i].confidence = ordered[j].confidence) => p[i] < p[j]

\* a two-candidate list whose input came in rising order of probability
C1_Witness ==
  /\ Normalised /\ Len(Input) = 2
  /\ Input[1] # Null /\ Input[2] # Null
  /\ Input[1].probability = Num(30) /\ Input[2].probability = Num(90)
  /\ ordered[1].confidence = Num(90) /\ ordered[2].confidence = Num(30)

\* suggestion s has no probability member, or a null one
NoProbability(s) == IsNullish(Get(s, "probability"))

\* C2: a raw suggestion without a probability (absent or null) is mapped to a
\* candidate of confidence exactly 0, by identify and by identifyPlant.
C2_MissingProbabilityIsZero ==
  /\ Normalised =>
       \E p \in Permutations(1..Len(Input)) :
         \A k \in 1..Len(Input) :
           /\ ordered[k].sci = Get(Input[p[k]], "name")
           /\ GalleryOf(Input[p[k]]) # <<>> => ordered[k].gallery = GalleryOf(Input[p[k]])
           /\ NoProbability(Input[p[k]]) => ordered[k].confidence = Num(0)
  /\ (screen = "result" /\ pc = "idle" /\ full # Undefined) =>
       /\ preds # Null /\ Len(preds.a) = Len(Input)
       /\ \A k \in 1..Len(Input) :
            NoProbability(Input[k]) => preds.a[k].confidence = Num(0)

\* one suggestion without the member and one with null, both stored with 0
C2_Witness ==
  /\ Normalised /\ Len(Input) = 2
  /\ Input[1] # Null /\ Input[2] # Null
  /\ Input[1].probability = Undefined /\ Input[2].probability = Null
  /\ ordered[1].confidence = Num(0) /\ ordered[2].confidence = Num(0)

\* C3: whatever the probability member holds, the stored confidence is never NaN:
\* an invalid value becomes 0.
C3_ConfidenceNeverNaN ==
  /\ \A k \in 1..Len(ordered) : ~ordered[k].confidence.nan
  /\ top # Null => ~top.confidence.nan
  /\ preds # Null => \A k \in 1..Len(preds.a) : ~preds.a[k].confidence.nan

\* the candidate shown first once identify has ended: ordered[0], or top
TopShown == IF screen = "details" THEN ordered[1] ELSE top

\* C4: after a successful identify with at least one suggestion, the top candidate of
\* a suggestion without any similar-image url has the gallery [photo reference]; one
\* with urls has them as its gallery, as mapped.  Both versions of Details.
C4_TopGalleryFallback ==
  (IsDetails /\ pc = "done" /\ full # Undefined /\ Len(Input) > 0 /\ Truthy(uri)) =>
    \E k \in 1..Len(Input) :
      /\ MappedFrom(TopShown, Input[k])
      /\ \A j \in 1..Len(Input) :
           ~Higher(MapCandidate(Input[j]).confidence, TopShown.confidence)
      /\ TopShown.gallery =
           (IF GalleryOf(Input[k]) = <<>> THEN <<uri>> ELSE GalleryOf(Input[k]))

\* the top suggestion had one similar image, without a url: the photo is shown
C4_Witness ==
  /\ Normalised /\ Len(Input) = 2
  /\ Input[2] # Null
  /\ Input[2].probability = Num(90)
  /\ Input[2].similar_images = Arr(<<Image(Undefined)>>)
  /\ ordered[1].confidence = Num(90)
  /\ ordered[1].gallery = <<uri>>
  /\ ordered[2].gallery = <<Str("https://img/1")>>

----------------------------------------------------------------------------
(* Claims about the Details screen and promote *)

\* C5: whenever a photo reference exists and a candidate is current, also after
\* promote and back presses, the gallery shown for the current candidate has at least
\* one image.
C5_CurrentGalleryNonEmpty ==
  (screen = "details" /\ Truthy(uri) /\ current # Undefined) => Len(gallery) >= 1

\* some candidate of ordered carries label l
HasLabel(l) == \E k \in 1..Len(ordered) : ordered[k].label = Str(l)

\* the 0-based index of the first candidate of ordered carrying label l
FirstWith(l) ==
  (CHOOSE k \in 1..Len(ordered) :
     /\ ordered[k].label = Str(l)
     /\ \A j \in 1..(k - 1) : ordered[j].label # Str(l)) - 1

\* C6: promote called with a label no candidate of ordered carries changes nothing:
\* ordered, currentIndex, showOthers and active keep their values, no alert is raised.
C6_PromoteAbsentLabel ==
  [][\A l \in PromoteLabels :
       (screen = "details" /\ lastOp' = Op("promote", l) /\ ~HasLabel(l)) =>
         /\ UNCHANGED <<ordered, currentIndex, showOthers, active>>
         /\ UNCHANGED <<loading, alerts, mounted>>]_vars

\* promote has just been called with an absent label, on a promoted candidate with
\* the alternatives open
C6_Witness ==
  /\ screen = "details" /\ lastOp.op = "promote" /\ ~HasLabel(lastOp.label)
  /\ Len(ordered) >= 2 /\ currentIndex = 1 /\ showOthers

\* C7: promote called with a label present in ordered makes the first candidate
\* carrying it current, closes the alternatives and resets the pager.
C7_PromotePresentLabel ==
  [][\A l \in PromoteLabels :
       (screen = "details" /\ lastOp' = Op("promote", l) /\ HasLabel(l)) =>
         /\ currentIndex' = FirstWith(l)
         /\ showOthers' = FALSE
         /\ active' = 0
         /\ ordered' = ordered]_vars

\* promote has just made the second candidate current
C7_Witness ==
  /\ screen = "details" /\ lastOp.op = "promote"
  /\ Len(ordered) >= 2 /\ ordered[2].label = Str(lastOp.label)
  /\ ordered[1].label # ordered[2].label
  /\ currentIndex = 1 /\ ~showOthers /\ active = 0

\* C8: on the Details screen either ordered is empty and no candidate is current, or
\* currentIndex is an index of ordered.
C8_CurrentIndexValid ==
  screen = "details" =>
    \/ ordered = <<>> /\ current = Undefined
    \/ ordered # <<>> /\ currentIndex \in 0..(Len(ordered) - 1)

\* the last candidate has been promoted
C8_Witness ==
  /\ screen = "details" /\ lastOp.op = "promote"
  /\ currentIndex >= 1 /\ currentIndex = Len(ordered) - 1

----------------------------------------------------------------------------
(* Claims about the requests of one identification attempt *)

Creates == SelectSeq(requests, LAMBDA r : r.kind = "create")
Retrieves == SelectSeq(requests, LAMBDA r : r.kind = "retrieve")

\* the attempt has ended with one "Identification failed" alert
EndedInFailure ==
  /\ pc = Rest
  /\ Len(alerts) = 1 /\ alerts[1].title = "Identification failed"

\* C9: the first create request carries the raw base64 image; a second one, with the
\* data-URI prefix, is sent exactly when the first was rejected with status 400; any
\* other failure of a create request is surfaced with no further create request.
C9_RetryOnlyOn400 ==
  /\ Len(Creates) <= 2
  /\ Len(Creates) >= 1 => Creates[1].image = Base64Data
  /\ Len(Creates) >= 1 =>
       (Len(Creates) = 2 <=> (Creates[1].state = "error" /\ Creates[1].status = 400))
  /\ Len(Creates) = 2 => Creates[2].image = Prefixed(Base64Data)
  /\ (Len(Creates) >= 1 /\ Creates[1].state \in {"failed", "error", "garbled"}
        /\ Creates[1].status # 400) => (Len(requests) = 1 /\ EndedInFailure)
  /\ (Len(Creates) = 2 /\ Creates[2].state \in {"failed", "error", "garbled"}) =>
       (Len(requests) = 2 /\ EndedInFailure)

\* the request r is a create request whose answer is a 2xx JSON body
CreatedOk(r) == r.kind = "create" /\ r.state = "ok"
\* its body carries a token under id or access_token
CarriesToken(r) == Truthy(r.id) \/ Truthy(r.access_token)

\* C10: a retrieve request is sent at most once, only right after a create request
\* that succeeded with a token, and carries that token; after a create request that
\* succeeded without a token no request follows and the suggestions stored are those
\* of the create response.
C10_RetrieveNeedsToken ==
  /\ Len(Retrieves) <= 1
  /\ \A i \in 1..Len(requests) :
       requests[i].kind = "retrieve" =>
         /\ i > 1 /\ i = Len(requests)
         /\ CreatedOk(requests[i - 1]) /\ CarriesToken(requests[i - 1])
         /\ requests[i].token = JSString(Or(requests[i - 1].id, requests[i - 1].access_token))
  /\ \A i \in 1..Len(requests) :
       (CreatedOk(requests[i]) /\ ~CarriesToken(requests[i])) =>
         /\ i = Len(requests) /\ pc = Rest
         /\ (mounted /\ screen = "details") => Len(ordered) = requests[i].count
         /\ (mounted /\ screen = "detailsTop") => (top = Null <=> requests[i].count = 0)
         /\ (mounted /\ screen = "result") =>
              (preds # Null /\ Len(preds.a) = requests[i].count)

\* the create response carried its token under access_token only; the retrieve
\* request carried it and brought two suggestions
C10_Witness ==
  /\ screen = "details" /\ pc = "done" /\ Len(requests) = 2
  /\ CreatedOk(requests[1])
  /\ requests[1].id = Undefined /\ requests[1].access_token = Str("tok2")
  /\ requests[2].kind = "retrieve" /\ requests[2].token = "tok2"
  /\ requests[2].state = "ok" /\ Len(ordered) = 2

----------------------------------------------------------------------------
(* Claims about how an attempt ends *)

\* the request that was answered last
LastRequest == requests[Len(requests)]

\* the attempt has ended on a final response: a JSON body that is either the answer to
\* the retrieve request or a create answer without a token
HasFinal ==
  /\ pc = Rest /\ requests # <<>>
  /\ LastRequest.state = "ok"
  /\ LastRequest.kind = "retrieve" \/ ~CarriesToken(LastRequest)

\* no location of the final response holds a suggestion
NoSuggestionAnywhere == LastRequest.direct <= 0 /\ LastRequest.wrapped <= 0

NoMatches == Alert("No matches", "Try a closer, well-lit photo of a single leaf/flower.")

\* C11: when the final response holds no suggestion list at either location, or an
\* empty one, the attempt ends with an empty result, currentIndex 0, loading false,
\* one "No matches" alert and no "Identification failed" alert.
C11_EmptyIsNoMatches ==
  (mounted /\ HasFinal /\ NoSuggestionAnywhere) =>
    /\ ~loading
    /\ alerts = <<NoMatches>>
    /\ screen = "details" => (ordered = <<>> /\ currentIndex = 0)
    /\ screen = "detailsTop" => top = Null
    /\ screen = "result" => preds = Arr(<<>>)

\* the retrieve request was answered with a body that has no result member
C11_Witness ==
  /\ screen = "details" /\ mounted /\ HasFinal
  /\ LastRequest.kind = "retrieve" /\ LastRequest.direct = -1 /\ LastRequest.wrapped = -1
  /\ alerts = <<NoMatches>> /\ ordered = <<>> /\ ~loading

\* the request r was answered with a failure
FailedRequest(r) == r.state \in {"failed", "error", "garbled"}

\* the photo reference is absent or not a file:// reference
Malformed == ~Truthy(uri) \/ ~StartsWith(JSString(uri), "file://")

\* this step ends the attempt on the error path: one "Identification failed" alert
\* more, no request more, loading false, nothing stored
Surfaced ==
  /\ pc' = Rest
  /\ Len(requests') = Len(requests)
  /\ Len(alerts') = Len(alerts) + 1
  /\ alerts'[Len(alerts')].title = "Identification failed"
  /\ mounted => ~loading'
  /\ UNCHANGED <<ordered, currentIndex, top, preds>>

\* C12: every failure inside the flow (invalid photo reference, file read failure, a
\* non-2xx or non-JSON answer to a create or retrieve request, other than the first
\* create request rejected with status 400) ends the attempt at once with exactly one
\* "Identification failed" alert, no further request, loading false and nothing stored.
C12_FailureIsOneAlert ==
  [][/\ (/\ pc \in {"create1", "create2", "retrieve"}
         /\ FailedRequest(requests'[Len(requests)])
         /\ ~(pc = "create1" /\ requests'[Len(requests)].state = "error"
                /\ requests'[Len(requests)].status = 400)) => Surfaced
     /\ (pc = "read" /\ pc' # "read" /\ pc' # "create1") => Surfaced
     /\ (pc = "effect" /\ pc' # "effect" /\ ~USE_FAKE_RESULTS /\ Malformed) =>
          (Surfaced /\ requests' = <<>>)]_vars

\* an identification has been started on this screen
Started ==
  IF screen = "result" THEN pc # "idle" \/ alerts # <<>> \/ preds # Null
  ELSE pc # "effect"

\* C13: an identification started with a malformed photo reference (absent, or not a
\* file:// reference) is reported at once as an input error, with no request sent and
\* no candidate list produced, whether or not the mock-data switch is on.
C13_MalformedIsInputError ==
  (Malformed /\ Started) =>
    /\ pc = Rest /\ EndedInFailure
    /\ requests = <<>>
    /\ ordered = <<>> /\ top = Null /\ preds = Null

----------------------------------------------------------------------------
(* The care chip of the result view *)

\* careBadge with < in the place of <=
careBadge_strict(d) ==
  IF ~Truthy(Get(d, "watering")) THEN "Moderate to Care"
  ELSE LET min == Coalesce(Get(Get(d, "watering"), "min"), Num(50)).v
           max == Coalesce(Get(Get(d, "watering"), "max"), Num(50)).v
       IN IF min + max < 2 * 25 THEN "Easy Care"
          ELSE IF min + max < 2 * 55 THEN "Moderate to Care"
          ELSE "Thirsty"

\* careBadge; min, max and the thresholds in hundredths, avg <= t taken as
\* min + max <= 2 * t
careBadge(d) ==
  IF ~Truthy(Get(d, "watering")) THEN "Moderate to Care"
  ELSE LET min == Coalesce(Get(Get(d, "watering"), "min"), Num(50)).v
           max == Coalesce(Get(Get(d, "watering"), "max"), Num(50)).v
       IN IF min + max <= 2 * 25 THEN "Easy Care"
          ELSE IF min + max <= 2 * 55 THEN "Moderate to Care"
          ELSE "Thirsty"

Hundredths == 0..100

\* the details a candidate can carry: none, some without a watering range, and a
\* watering range with each bound absent or a number of [0,1]
AnyDetails ==
  {Null, DetailsOf(Str("Ficus")), [t |-> "object", watering |-> Null]}
    \cup {[t |-> "object", watering |-> [t |-> "object", min |-> a, max |-> b]] :
            a, b \in {Undefined} \cup {Num(k) : k \in Hundredths}}

\* the Details screen showing one candidate
InitBadge ==
  /\ screen = "details"
  /\ USE_FAKE_RESULTS = FALSE
  /\ uri = Str("file:///photo.jpg")
  /\ mounted = TRUE
  /\ pc = "done"
  /\ base64 = ""
  /\ requests = <<>>
  /\ loading = FALSE
  /\ ordered \in {<<[label |-> Str("Ficus"), sci |-> Str("Ficus"), confidence |-> Num(90),
                     details |-> d, gallery |-> <<uri>>]>> : d \in AnyDetails}
  /\ currentIndex = 0
  /\ showOthers = FALSE
  /\ active = 0
  /\ top = Null
  /\ preds = Null
  /\ alerts = <<>>
  /\ full = Undefined
  /\ badge = ""
  /\ script = <<>>
  /\ first = Null
  /\ lastOp = Op("mount", "")

\* the result view renders its care chip: careBadge(current.details)
RenderChip ==
  /\ ShowsResult
  /\ badge' = careBadge(current.details)
  /\ lastOp' = Op("render", "")
  /\ UNCHANGED <<screen, USE_FAKE_RESULTS, uri, full, script, first, mounted, pc, base64,
                 requests, Results, UI>>

NextBadge == RenderChip

SpecBadge == InitBadge /\ [][NextBadge]_vars

\* the watering range of the candidate on screen
Watering == Get(current.details, "watering")

\* C14: careBadge gives "Moderate to Care" when there is no watering range; with min
\* and max in hundredths of [0,1] and avg = (min + max) / 2 it gives "Easy Care" for
\* avg <= 0.25, "Moderate to Care" for 0.25 < avg <= 0.55 and "Thirsty" for avg > 0.55.
C14_CareBadge ==
  lastOp.op = "render" =>
    IF IsNullish(Watering) THEN badge = "Moderate to Care"
    ELSE (~IsNullish(Watering.min) /\ ~IsNullish(Watering.max)) =>
           LET twiceAvg == Watering.min.v + Watering.max.v
           IN /\ twiceAvg <= 50 => badge = "Easy Care"
              /\ (50 < twiceAvg /\ twiceAvg <= 110) => badge = "Moderate to Care"
              /\ twiceAvg > 110 => badge = "Thirsty"

\* the chip was rendered for an average of exactly 0.25
C14_Witness ==
  /\ lastOp.op = "render" /\ ~IsNullish(Watering)
  /\ Watering.min = Num(20) /\ Watering.max = Num(30)
  /\ badge = "Easy Care"

----------------------------------------------------------------------------
(* Claims about concurrency, the screen's lifecycle and the back button *)

\* C15: on the Result screen at most one identification is outstanding: while one is
\* in flight loading is true and the Identify button is disabled, so onIdentify starts
\* an identification only when none is in flight and loading is false.
C15_OneChainAtATime ==
  /\ []((screen = "result" /\ mounted) => (loading <=> pc # "idle"))
  /\ [][lastOp' = Op("onIdentify", "") => (pc = "idle" /\ ~loading)]_vars

\* a second identification is in flight, after a first one has stored its list
C15_Witness ==
  /\ screen = "result" /\ mounted /\ preds # Null
  /\ pc = "create1" /\ loading /\ lastOp.op = "read"

\* C16: a result (success, empty or failure) that arrives after the screen has been
\* left is discarded: no list, index or loading state is updated, no alert is raised.
C16_LateResultDiscarded ==
  [][~mounted => UNCHANGED <<ordered, currentIndex, top, preds, loading, alerts>>]_vars

\* C17: once identify has stored the candidate list it never changes again, and
\* promote and onBackPress leave ordered as it is: they change currentIndex only.
C17_OrderedImmutable ==
  [][/\ lastOp'.op \in {"promote", "onBackPress"} => ordered' = ordered
     /\ (screen = "details" /\ pc = "done") => ordered' = ordered]_vars

\* back on the first candidate after an alternative had been promoted
C17_Witness ==
  /\ screen = "details" /\ mounted /\ lastOp.op = "onBackPress"
  /\ Len(ordered) = 3 /\ currentIndex = 0

\* C19: onBackPress with currentIndex # 0 returns to the first candidate, closes the
\* alternatives and stays on the screen; with currentIndex = 0 it leaves the screen and
\* changes nothing else.
C19_BackPress ==
  [][lastOp' = Op("onBackPress", "") =>
       IF currentIndex # 0
         THEN currentIndex' = 0 /\ showOthers' = FALSE /\ mounted' /\ ordered' = ordered
         ELSE ~mounted' /\ UNCHANGED <<ordered, currentIndex, showOthers, active, loading>>]_vars

\* the screen was left by a back press on the first candidate of several
C19_Witness ==
  /\ screen = "details" /\ ~mounted /\ lastOp.op = "onBackPress"
  /\ Len(ordered) >= 2 /\ currentIndex = 0

\* C20: after an alternative of the list is pressed, the candidate that becomes current
\* is the one that was pressed, also when two candidates carry the same label.
C20_PressedBecomesCurrent ==
  [][lastOp'.op = "promote" =>
       \E k \in 1..Len(others) :
         /\ others[k].label = Str(lastOp'.label)
         /\ current' = others[k]]_vars

----------------------------------------------------------------------------
(* The two versions of Details, mounted one after the other with the same route *)
(* parameter and given the same answers: the multi-candidate version first, its *)
(* answers recorded in script, then the top-only version.                       *)

\* how readAsStringAsync settled, as an entry of script
ReadAnswer(ok) == [kind |-> "read", ok |-> ok]

InitPair ==
  /\ screen = "details"
  /\ USE_FAKE_RESULTS \in BOOLEAN
  /\ uri \in Uris
  /\ mounted = TRUE
  /\ pc = "effect"
  /\ base64 = ""
  /\ requests = <<>>
  /\ loading = TRUE
  /\ ordered = <<>>
  /\ currentIndex = 0
  /\ showOthers = FALSE
  /\ active = 0
  /\ top = Null
  /\ preds = Null
  /\ alerts = <<>>
  /\ full = Undefined
  /\ badge = ""
  /\ script = <<>>
  /\ first = Null
  /\ lastOp = Op("mount", "")

PairFrame == <<screen, USE_FAKE_RESULTS, uri, full, badge, first, mounted, UI>>

PairRead ==
  /\ IsDetails /\ pc = "read"
  /\ lastOp' = Op("read", "")
  /\ IF screen = "details"
       THEN \E ok \in BOOLEAN : Read(ok) /\ script' = Append(script, ReadAnswer(ok))
       ELSE Read(Head(script).ok) /\ script' = Tail(script)
  /\ UNCHANGED PairFrame

PairCreate1 ==
  /\ IsDetails /\ pc = "create1"
  /\ lastOp' = Op("create1", "")
  /\ IF screen = "details"
       THEN \E res \in CreateResponses : Create1(res) /\ script' = Append(script, res)
       ELSE Create1(Head(script)) /\ script' = Tail(script)
  /\ UNCHANGED PairFrame

PairCreate2 ==
  /\ IsDetails /\ pc = "create2"
  /\ lastOp' = Op("create2", "")
  /\ IF screen = "details"
       THEN \E res \in CreateResponses : Create2(res) /\ script' = Append(script, res)
       ELSE Create2(Head(script)) /\ script' = Tail(script)
  /\ UNCHANGED PairFrame

PairRetrieve ==
  /\ IsDetails /\ pc = "retrieve"
  /\ lastOp' = Op("retrieve", "")
  /\ IF screen = "details"
       THEN \E res \in RetrieveResponses : Retrieve(res) /\ script' = Append(script, res)
       ELSE Retrieve(Head(script)) /\ script' = Tail(script)
  /\ UNCHANGED PairFrame

\* the multi-candidate version has ended: the top-only version is mounted in its
\* initial state, and what the first run ended with is kept in first
Remount ==
  /\ screen = "details" /\ pc = "done"
  /\ screen' = "detailsTop"
  /\ pc' = "effect"
  /\ loading' = TRUE
  /\ alerts' = <<>>
  /\ requests' = <<>>
  /\ first' = [loading |-> loading, alerts |-> alerts, requests |-> requests]
  /\ lastOp' = Op("mount", "")
  /\ UNCHANGED <<USE_FAKE_RESULTS, uri, full, badge, script, mounted, base64, ordered,
                 currentIndex, top, preds, UI>>

NextPair ==
  \/ useEffect
  \/ identify_mock
  \/ PairRead
  \/ PairCreate1
  \/ PairCreate2
  \/ PairRetrieve
  \/ Remount

SpecPair == InitPair /\ [][NextPair]_vars

\* both versions have run to their end
BothDone == screen = "detailsTop" /\ pc = "done"

\* C18: for every photo reference and sequence of answers, the candidate the
\* multi-candidate version shows right after identify (ordered[0], with currentIndex 0
\* and its fallback gallery) is the candidate the top-only version keeps in top, and
\* both end the same way: a result, no matches, or a failure.
C18_TopOnlyAgrees ==
  BothDone =>
    /\ alerts = first.alerts
    /\ loading = first.loading
    /\ requests = first.requests
    /\ IF ordered = <<>> THEN top = Null
       ELSE top = ordered[1] /\ currentIndex = 0

\* both versions ended on a result, out of two suggestions and a retrieve request,
\* whose first candidate got the fallback gallery
C18_Witness ==
  /\ BothDone /\ ~USE_FAKE_RESULTS
  /\ Len(requests) = 2 /\ requests[2].kind = "retrieve"
  /\ Len(ordered) = 2 /\ top = ordered[1]
  /\ top.gallery = <<uri>> /\ top.label = Str("Rosa")

----------------------------------------------------------------------------
(* The Details screens with every pending step of the flow eventually taken: the *)
(* load effect runs once the screen is mounted, and the timer, the file read and *)
(* each request eventually settle.                                              *)

InitLive == Init /\ IsDetails

NextLive ==
  \/ useEffect
  \/ identify_mock
  \/ identify_read
  \/ identify_create1
  \/ identify_create2
  \/ identify_retrieve
  \/ PressAlternative
  \/ ToggleOthers
  \/ onScrollEnd
  \/ onBackPress
  \/ routerBack

FlowFairness ==
  /\ WF_vars(useEffect)
  /\ WF_vars(identify_mock)
  /\ WF_vars(identify_read)
  /\ WF_vars(identify_create1)
  /\ WF_vars(identify_create2)
  /\ WF_vars(identify_retrieve)

SpecLive == InitLive /\ [][NextLive]_vars /\ FlowFairness

\* C21: on the Details screen the identification the load effect starts eventually
\* ends, on each of its paths, and once it has ended loading is false for as long as
\* the screen is mounted: loading is never left true forever.
C21_LoadingEnds ==
  /\ (IsDetails /\ pc # "effect") ~> (pc = "done")
  /\ (IsDetails /\ mounted) ~> (~mounted \/ (pc = "done" /\ ~loading))
  /\ []((IsDetails /\ mounted /\ pc = "done") => ~loading)

\* the flow has ended with a failure of the retrieve request, loading false
C21_Witness ==
  /\ screen = "details" /\ mounted /\ pc = "done" /\ ~loading
  /\ Len(requests) = 2 /\ requests[2].kind = "retrieve" /\ requests[2].state = "error"
  /\ Len(alerts) = 1

====
